---------------------------- MODULE Spec2Model ----------------------------
(***************************************************************************)
(* Smart-scheduling service of T564A_SmartCalendar.                        *)
(*                                                                         *)
(*   - the slot search of VoiceService (_find_free_slots and its helpers), *)
(*     stepped one scan-loop iteration at a time under SlotSpec;           *)
(*   - the proposal-session store of VoiceService (add_recurring and       *)
(*     confirm_event) as requests handled on one asyncio event loop,       *)
(*     under Spec.                                                         *)
(*                                                                         *)
(* Time is an integer number of minutes since a Monday 00:00 in the        *)
(* configured timezone (datetime values at whole minutes).  Scores are     *)
(* kept in half points (twice the float of the code) so that the 0.5       *)
(* weight of the hour bias stays an integer.                               *)
(***************************************************************************)
EXTENDS Integers, Sequences, FiniteSets, TLC

VARIABLES
    pending_proposals, \* VoiceService._pending_proposals: session id -> session data
    clock,             \* current reading of datetime.now() (session ids derive from it)
    calendar,          \* events inserted into the Google calendar, in insertion order
    calls,             \* the request slots of the server: one record per slot
    consumed,          \* history: session ids a confirm call has succeeded on
    now,               \* slot search: datetime.now(tz) read by _find_free_slots
    parsed_request,    \* slot search: the parsed request
    existing_events,   \* slot search: the busy intervals list_events returned
    end_date,          \* slot search: end of the search window
    current,           \* slot search: the scan cursor
    candidates,        \* slot search: free candidates found so far
    phase,             \* slot search: "off", "scan" or "done"
    answer,            \* slot search: what add_recurring returned
    recurrence_payload,\* expansion: the "recurrence" object of /events/create
    rule,              \* expansion: the RecurrenceRule
    template_start,    \* expansion: start of the template event
    template_end,      \* expansion: end of the template event
    last_dt,           \* expansion: the datetime rrule yielded last
    counter,           \* expansion: candidates counted against the limit
    occurrences,       \* expansion: the (start, end) pairs collected
    expand_phase,      \* expansion: "off", "build", "call", "loop", "done", "error"
    expand_error,      \* expansion: the ValueError raised, "" when none
    event_store,       \* series: the Google calendar, event id -> event
    parent_id,         \* series: the sanitized parent id of the series
    next_index,        \* series: 1-based index of the occurrence written next
    created_events,    \* series: id and action of each create_or_update_event call
    submission,        \* series: 1 for the request, 2 for its repetition
    first_pass,        \* history: created_events of submission 1
    series_phase,      \* series: "off", "serve" or "done"
    create_response,   \* series: what /events/create answered
    delete_response,   \* what /events/delete answered last
    deleted,           \* history: the stored events /events/delete removed
    deletes            \* history: number of /events/delete requests served

vars == <<pending_proposals, clock, calendar, calls, consumed, now, parsed_request,
          existing_events, end_date, current, candidates, phase, answer,
          recurrence_payload, rule, template_start, template_end, last_dt, counter,
          occurrences, expand_phase, expand_error, event_store, parent_id, next_index,
          created_events, submission, first_pass, series_phase, create_response,
          delete_response, deleted, deletes>>

sessionVars == <<pending_proposals, clock, calendar, calls, consumed>>
searchVars == <<now, parsed_request, existing_events, end_date, current, candidates,
                phase, answer>>
expandVars == <<recurrence_payload, rule, template_start, template_end, last_dt,
                counter, occurrences, expand_phase, expand_error>>
seriesVars == <<event_store, parent_id, next_index, created_events, submission, first_pass,
                series_phase, create_response, delete_response, deleted, deletes>>

-----------------------------------------------------------------------------
(* Bounds of the model.                                                    *)

MaxCount == 2       \* requested counts are 1..MaxCount
MaxBusy == 1        \* busy lists hold at most MaxBusy intervals of the pool
MaxClock == 2       \* clock readings are 1..MaxClock
MaxEvents == 2      \* calendar inserts are followed up to this many events
NumSlots == 2       \* requests that can be in flight at the same time

-----------------------------------------------------------------------------
(* datetime arithmetic on minutes since Monday 00:00.                      *)

DayMinutes == 24 * 60

DateOf(t) == t \div DayMinutes            \* datetime.date()
HourOf(t) == (t % DayMinutes) \div 60     \* datetime.hour
MinuteOf(t) == t % 60                     \* datetime.minute
WeekdayOf(t) == DateOf(t) % 7             \* datetime.weekday(), Monday = 0

\* dt.replace(hour=h, minute=m) (seconds are not modelled)
ReplaceHourMinute(t, h, m) == DateOf(t) * DayMinutes + h * 60 + m

Abs(x) == IF x < 0 THEN -x ELSE x
Min(a, b) == IF a < b THEN a ELSE b
Max(a, b) == IF a > b THEN a ELSE b

-----------------------------------------------------------------------------
(* Constants of _find_free_slots.                                          *)

BUFFER_MINUTES == 15
ROUND_TO_MINUTES == 15
MIN_PROXIMITY_MINUTES == 60

\* voice.py 271-279: the search window end for a time_range
EndDate(n, time_range) ==
    IF time_range = "this_week" THEN n + 7 * DayMinutes
    ELSE IF time_range = "next_3_days" THEN n + 3 * DayMinutes
    ELSE IF time_range = "today" THEN ReplaceHourMinute(n, 23, 59)
    ELSE n + 7 * DayMinutes

\* the default band whatever the preference
WorkingHoursDefault(preferred_time) == <<8, 20>>

\* voice.py 289-297: <<working_start, working_end>> for a preference
WorkingHours(preferred_time) ==
    IF preferred_time = "morning" THEN <<8, 12>>
    ELSE IF preferred_time = "afternoon" THEN <<12, 17>>
    ELSE IF preferred_time = "evening" THEN <<17, 20>>
    ELSE <<8, 20>>

\* rounding down to the interval boundary at or before dt
RoundToIntervalDown(dt, minutes) ==
    ReplaceHourMinute(dt, HourOf(dt), (MinuteOf(dt) \div minutes) * minutes)

\* voice.py 364-372: round to the next interval boundary
RoundToInterval(dt, minutes) ==
    LET minute == ((MinuteOf(dt) \div minutes) + 1) * minutes
    IN  IF minute >= 60
        THEN ReplaceHourMinute(dt, HourOf(dt), 0) + 60
        ELSE ReplaceHourMinute(dt, HourOf(dt), minute)

\* the band start of the day of dt, also when dt is past it
NextWorkingStartSameDay(dt, start_hour) == ReplaceHourMinute(dt, start_hour, 0)

\* voice.py 374-379: the next start of the working band
NextWorkingStart(dt, start_hour) ==
    LET next_day == ReplaceHourMinute(dt, start_hour, 0)
    IN  IF HourOf(dt) >= start_hour THEN next_day + DayMinutes ELSE next_day

\* IsSlotFree testing only whether the window starts inside an event
IsSlotFreeStartOnly(start, end, events) ==
    \A i \in 1..Len(events) : ~(events[i].start <= start /\ start < events[i].end)

\* voice.py 461-491: no event of the list overlaps [start, end)
IsSlotFree(start, end, events) ==
    \A i \in 1..Len(events) : ~(start < events[i].end /\ end > events[i].start)

\* the score without the weekday term
ScoreSlotNoWeekday(start, preferred_time) ==
    LET hour == HourOf(start)
        pref == IF preferred_time = "morning" /\ 8 <= hour /\ hour < 12 THEN 60
                ELSE IF preferred_time = "afternoon" /\ 12 <= hour /\ hour < 17 THEN 60
                ELSE IF preferred_time = "evening" /\ 17 <= hour /\ hour < 20 THEN 60
                ELSE IF preferred_time = "none" /\ 9 <= hour /\ hour < 17 THEN 40
                ELSE 0
        lunch == IF 12 <= hour /\ hour < 13 THEN -30 ELSE 0
        dinner == IF 18 <= hour /\ hour < 19 THEN -30 ELSE 0
        late == IF hour >= 19 THEN -20 ELSE 0
    IN  200 + pref + (20 - hour) + lunch + dinner + late

\* voice.py 381-429: the score of a slot, in half points
ScoreSlot(start, preferred_time) ==
    LET hour == HourOf(start)
        weekday == WeekdayOf(start)
        pref == IF preferred_time = "morning" /\ 8 <= hour /\ hour < 12 THEN 60
                ELSE IF preferred_time = "afternoon" /\ 12 <= hour /\ hour < 17 THEN 60
                ELSE IF preferred_time = "evening" /\ 17 <= hour /\ hour < 20 THEN 60
                ELSE IF preferred_time = "none" /\ 9 <= hour /\ hour < 17 THEN 40
                ELSE 0
        early == 20 - hour
        lunch == IF 12 <= hour /\ hour < 13 THEN -30 ELSE 0
        dinner == IF 18 <= hour /\ hour < 19 THEN -30 ELSE 0
        late == IF hour >= 19 THEN -20 ELSE 0
        wd == IF weekday < 4 THEN 10 ELSE IF weekday = 4 THEN 0 ELSE -10
    IN  200 + pref + early + lunch + dinner + late + wd

\* voice.py 323-330: the candidate record (the display labels day/time are
\* strftime renderings of start and are left out)
Candidate(cur, duration_minutes, preferred_time) ==
    [start |-> cur,
     end |-> cur + duration_minutes,
     score |-> ScoreSlot(cur, preferred_time),
     weekday |-> WeekdayOf(cur)]

\* voice.py 303-333: one iteration of the scan loop, from cursor cur with
\* the candidates cands found so far: <<next cursor, candidates>>
ScanStep(cur, cands, req, events) ==
    LET wh == WorkingHours(req.preferred_time)
        buffered_start == cur - BUFFER_MINUTES
        slot_end == cur + req.duration_minutes
        buffered_end == slot_end + BUFFER_MINUTES
    IN  IF ~(wh[1] <= HourOf(cur) /\ HourOf(cur) < wh[2])
        THEN <<NextWorkingStart(cur, wh[1]), cands>>
        ELSE <<cur + ROUND_TO_MINUTES,
               IF IsSlotFree(buffered_start, buffered_end, events)
               THEN Append(cands, Candidate(cur, req.duration_minutes, req.preferred_time))
               ELSE cands>>

-----------------------------------------------------------------------------
(* Ranking and selection of _find_free_slots.                              *)

RECURSIVE SortByScoreFrom(_, _)
SortByScoreFrom(cands, scores) ==
    IF scores = {} THEN <<>>
    ELSE LET best == CHOOSE m \in scores : \A o \in scores : o <= m
         IN  SelectSeq(cands, LAMBDA c : c.score = best)
                 \o SortByScoreFrom(cands, scores \ {best})

\* voice.py 336: candidates.sort(key=score, reverse=True): a stable sort, so
\* candidates of equal score keep their generation order
SortByScore(cands) ==
    SortByScoreFrom(cands, {cands[i].score : i \in 1..Len(cands)})

\* TooClose with the lower figure of the docstring's "45-60 min"
TooCloseWithin45(candidate, selected) ==
    \E i \in 1..Len(selected) :
        /\ DateOf(candidate.start) = DateOf(selected[i].start)
        /\ Abs(candidate.start - selected[i].start) < 45

\* voice.py 345-353: the candidate is on the day of an already selected slot
\* and starts less than MIN_PROXIMITY_MINUTES from it
TooClose(candidate, selected) ==
    \E i \in 1..Len(selected) :
        /\ DateOf(candidate.start) = DateOf(selected[i].start)
        /\ Abs(candidate.start - selected[i].start) < MIN_PROXIMITY_MINUTES

\* the greedy filter stopping at count instead of count * 2 selected slots
RECURSIVE ProximityFromCount(_, _, _, _)
ProximityFromCount(sorted, i, selected, count) ==
    IF i > Len(sorted) \/ Len(selected) >= count THEN selected
    ELSE ProximityFromCount(sorted, i + 1,
                            IF TooClose(sorted[i], selected) THEN selected
                            ELSE Append(selected, sorted[i]),
                            count)

RECURSIVE ProximityFrom(_, _, _, _)
ProximityFrom(sorted, i, selected, count) ==
    IF i > Len(sorted) \/ Len(selected) >= count * 2 THEN selected
    ELSE ProximityFrom(sorted, i + 1,
                       IF TooClose(sorted[i], selected) THEN selected
                       ELSE Append(selected, sorted[i]),
                       count)

\* voice.py 338-356: the greedy proximity filter over the sorted candidates
ProximitySelect(sorted, count) == ProximityFrom(sorted, 1, <<>>, count)

\* the members of a sequence, and membership (Python's "in" on a list)
Range(s) == {s[i] : i \in 1..Len(s)}

RECURSIVE SortedSeq(_)
SortedSeq(S) ==
    IF S = {} THEN <<>>
    ELSE LET least == CHOOSE m \in S : \A o \in S : m <= o
         IN  <<least>> \o SortedSeq(S \ {least})

\* voice.py 450: max(by_day[day], key=score): the first slot of the day's
\* list that has the day's highest score
BestOfDay(slots, day) ==
    LET of_day == SelectSeq(slots, LAMBDA s : DateOf(s.start) = day)
        top == CHOOSE m \in {of_day[i].score : i \in 1..Len(of_day)} :
                   \A i \in 1..Len(of_day) : of_day[i].score <= m
    IN  SelectSeq(of_day, LAMBDA s : s.score = top)[1]

RECURSIVE SpreadFirstPass(_, _, _, _, _)
SpreadFirstPass(slots, days, i, spread, count) ==
    IF i > Len(days) THEN spread
    ELSE SpreadFirstPass(slots, days, i + 1,
                         IF Len(spread) < count * 2
                         THEN Append(spread, BestOfDay(slots, days[i]))
                         ELSE spread,
                         count)

RECURSIVE SpreadSecondPass(_, _, _, _)
SpreadSecondPass(slots, i, spread, count) ==
    IF i > Len(slots) THEN spread
    ELSE SpreadSecondPass(slots, i + 1,
                          IF slots[i] \notin Range(spread) /\ Len(spread) < count * 2
                          THEN Append(spread, slots[i])
                          ELSE spread,
                          count)

\* the day spread keeping only its first pass, one slot per day
SpreadFirstPassOnly(slots, count) ==
    SpreadFirstPass(slots, SortedSeq({DateOf(slots[i].start) : i \in 1..Len(slots)}),
                    1, <<>>, count)

\* voice.py 431-459: one slot per day first, then the remaining slots
SpreadAcrossDays(slots, count) ==
    LET days == SortedSeq({DateOf(slots[i].start) : i \in 1..Len(slots)})
        first == SpreadFirstPass(slots, days, 1, <<>>, count)
    IN  IF Len(first) < count * 2
        THEN SpreadSecondPass(slots, 1, first, count)
        ELSE first

\* Python's seq[:n]
SlicePrefix(s, n) ==
    IF n >= 0 THEN SubSeq(s, 1, Min(n, Len(s)))
    ELSE SubSeq(s, 1, Max(Len(s) + n, 0))

\* voice.py 335-362: from the scanned candidates to the returned proposals
SelectProposals(cands, count) ==
    LET selected == ProximitySelect(SortByScore(cands), count)
        spread == IF count > 1 THEN SpreadAcrossDays(selected, count) ELSE selected
    IN  SlicePrefix(spread, count * 2)

RECURSIVE ScanAll(_, _, _, _, _)
ScanAll(cur, cands, req, events, end) ==
    IF cur < end
    THEN LET nxt == ScanStep(cur, cands, req, events)
         IN  ScanAll(nxt[1], nxt[2], req, events, end)
    ELSE cands

\* voice.py 248-362: _find_free_slots as one call
FindFreeSlots(req, n, events) ==
    SelectProposals(
        ScanAll(RoundToInterval(n + 30, ROUND_TO_MINUTES), <<>>, req, events,
                EndDate(n, req.time_range)),
        req.count)

-----------------------------------------------------------------------------
(* add_recurring: what it stores and what it answers once the proposals    *)
(* are known.                                                              *)

\* the empty proposal store (voice.py 20)
EmptyStore == [i \in {} |-> 0]

\* voice.py 69: f"session_{datetime.now().timestamp()}": the id is the clock
\* reading, rendered
SessionId(clk) == clk

\* StoreAfterSearch without the empty-result return of voice.py 61-66
StoreAfterSearchAlways(store, clk, req, proposals) ==
    [i \in DOMAIN store \cup {SessionId(clk)} |->
        IF i = SessionId(clk)
        THEN [parsed_request |-> req, proposals |-> proposals]
        ELSE store[i]]

\* voice.py 61-74: the store after add_recurring found the proposals
StoreAfterSearch(store, clk, req, proposals) ==
    IF proposals = <<>> THEN store
    ELSE [i \in DOMAIN store \cup {SessionId(clk)} |->
             IF i = SessionId(clk)
             THEN [parsed_request |-> req, proposals |-> proposals]
             ELSE store[i]]

\* voice.py 61-85: the answer of add_recurring
SearchAnswer(clk, req, proposals) ==
    IF proposals = <<>>
    THEN [handled |-> TRUE, requires_confirmation |-> FALSE,
          session_id |-> 0, proposals |-> <<>>]
    ELSE [handled |-> TRUE, requires_confirmation |-> TRUE,
          session_id |-> SessionId(clk), proposals |-> proposals]

NoAnswer == [handled |-> FALSE, requires_confirmation |-> FALSE,
             session_id |-> 0, proposals |-> <<>>]

-----------------------------------------------------------------------------
(* Inputs of the slot search.                                              *)

\* datetime.now(tz) readings: Monday 06:50, Thursday 10:00, Friday 13:20,
\* Saturday 19:40
NowChoices == {0 * DayMinutes + 410, 3 * DayMinutes + 600,
               4 * DayMinutes + 800, 5 * DayMinutes + 1180}

Durations == {30, 120}
TimeRanges == {"today", "next_3_days", "this_week"}
Preferences == {"none", "morning", "afternoon", "evening"}

Requests ==
    [duration_minutes : Durations, count : 1..MaxCount,
     time_range : TimeRanges, preferred_time : Preferences]

\* the busy intervals list_events can return for a window starting at n:
\* 14:00-15:00 today, 09:00-10:30 tomorrow, and one event covering the
\* whole window
BusyPool(n, end) ==
    {[start |-> ReplaceHourMinute(n, 14, 0), end |-> ReplaceHourMinute(n, 15, 0)],
     [start |-> ReplaceHourMinute(n, 9, 0) + DayMinutes,
      end |-> ReplaceHourMinute(n, 10, 30) + DayMinutes],
     [start |-> n - 60, end |-> end + 60]}

\* list_events orders by start time (google_calendar.py 222-229)
ByStart(S) ==
    LET starts == SortedSeq({e.start : e \in S})
    IN  [i \in 1..Len(starts) |-> CHOOSE e \in S : e.start = starts[i]]

BusyLists(n, end) ==
    {ByStart(S) : S \in {T \in SUBSET BusyPool(n, end) : Cardinality(T) <= MaxBusy}}

\* a free request slot
IdleCall ==
    [kind |-> "none", state |-> "idle", input |-> 0, session_id |-> 0,
     selected_indices |-> <<>>, adjusted_times |-> <<>>, result |-> "none",
     created_count |-> 0, together |-> 0]

-----------------------------------------------------------------------------
(* Recurrence expansion: generate_occurrences and the rule it is given.     *)
(* Datetimes are minutes since Monday 2024-01-01 00:00 in the event's time  *)
(* zone; datetime and dateutil work on the wall-clock fields, so the same   *)
(* arithmetic holds for naive and for zone-aware values.                   *)

\* Python's None for the optional fields of RecurrenceRule, RecurrenceException
\* and the payload
None == 0 - 1000000

\* days from 0000-03-01 to the epoch 2024-01-01
EpochDays == 739191

TimeOf(t) == t % DayMinutes               \* datetime.time()
DateWeekday(d) == d % 7                   \* date.weekday() of a day number

\* the proleptic Gregorian calendar of datetime.date: day number of y-m-d
DaysFromCivil(y, m, d) ==
    LET yy == IF m <= 2 THEN y - 1 ELSE y
        era == yy \div 400
        yoe == yy - era * 400
        doy == (153 * (IF m > 2 THEN m - 3 ELSE m + 9) + 2) \div 5 + d - 1
        doe == yoe * 365 + yoe \div 4 - yoe \div 100 + doy
    IN  era * 146097 + doe - EpochDays

\* date.year, date.month, date.day of a day number
CivilFromDays(z) ==
    LET zz == z + EpochDays
        era == zz \div 146097
        doe == zz - era * 146097
        yoe == (doe - doe \div 1460 + doe \div 36524 - doe \div 146096) \div 365
        doy == doe - (365 * yoe + yoe \div 4 - yoe \div 100)
        mp == (5 * doy + 2) \div 153
        m == IF mp < 10 THEN mp + 3 ELSE mp - 9
    IN  [year |-> yoe + era * 400 + (IF m <= 2 THEN 1 ELSE 0),
         month |-> m,
         day |-> doy - (153 * mp + 2) \div 5 + 1]

\* months are counted from year 0: index = 12 * year + month - 1
MonthIndex(z) == CivilFromDays(z).year * 12 + CivilFromDays(z).month - 1
FirstOfMonth(mi) == DaysFromCivil(mi \div 12, (mi % 12) + 1, 1)
DaysInMonth(mi) == FirstOfMonth(mi + 1) - FirstOfMonth(mi)

\* recurrence.py 37-39: RecurrenceException.matches, by calendar date
Matches(exception, target) ==
    LET match_end == IF exception.end = None THEN exception.start ELSE exception.end
    IN  exception.start <= DateOf(target) /\ DateOf(target) <= match_end

\* recurrence.py 130-134: some exception of the rule matches dt
Excepted(r, dt) ==
    \E i \in 1..Len(r.exceptions) : Matches(r.exceptions[i], dt)

Frequencies == {"daily", "weekly", "biweekly", "monthly"}

\* resolve_freq answering the weekly cadence for an unknown frequency
ResolveFreqDefaultWeekly(frequency) ==
    IF frequency = "daily" THEN "DAILY"
    ELSE IF frequency = "monthly" THEN "MONTHLY"
    ELSE "WEEKLY"

\* recurrence.py 53-62: resolve_freq; "ValueError" when it raises
ResolveFreq(frequency) ==
    IF frequency = "daily" THEN "DAILY"
    ELSE IF frequency \in {"weekly", "biweekly"} THEN "WEEKLY"
    ELSE IF frequency = "monthly" THEN "MONTHLY"
    ELSE "ValueError"

\* resolve_interval without the doubling of the biweekly frequency
ResolveIntervalPlain(r) ==
    Max(1, IF r.interval = 0 THEN 1 ELSE r.interval)

\* recurrence.py 64-68: resolve_interval ("interval or 1": 0 counts as 1)
ResolveInterval(r) ==
    IF r.frequency = "biweekly"
    THEN Max(1, IF r.interval = 0 THEN 1 ELSE r.interval) * 2
    ELSE Max(1, IF r.interval = 0 THEN 1 ELSE r.interval)

\* byweekday ignored: every day of an active week
ByWeekdayEveryDay(r, start) == 0..6

\* recurrence.py 113-115: byweekday when the rule has weekdays; rrule takes
\* the weekday of dtstart when byweekday is not given
ByWeekday(r, start) ==
    IF r.weekdays # <<>> THEN Range(r.weekdays) ELSE {WeekdayOf(start)}

\* rrule's until bound taken as exclusive
WithinUntilExclusive(r, dt) == r.until = None \/ dt < r.until

\* recurrence.py 110-111: rrule yields no datetime after until; "if
\* rule.until" is false only for None
WithinUntil(r, dt) == r.until = None \/ dt <= r.until

\* rrule WEEKLY: the weeks start on Monday, every interval-th week from the
\* week of dtstart is active
WeekOf(start, d) == (d - (DateOf(start) - WeekdayOf(start))) \div 7

\* rrule WEEKLY: the first day from lo on that is in byweekday and in an
\* active week; there is one within 7 * interval days
NextWeekly(r, start, lo) ==
    LET n == ResolveInterval(r)
        days == {d \in lo..(lo + 7 * n - 1) :
                    /\ DateWeekday(d) \in ByWeekday(r, start)
                    /\ WeekOf(start, d) % n = 0}
    IN  CHOOSE d \in days : \A o \in days : d <= o

\* rrule MONTHLY with bymonthday = [start.day] (recurrence.py 117-119): the
\* first month from mi on, in steps of n, that has the day; months that
\* lack it yield nothing
RECURSIVE NextMonthly(_, _, _)
NextMonthly(mi, day, n) ==
    IF day <= DaysInMonth(mi) THEN FirstOfMonth(mi) + day - 1
    ELSE NextMonthly(mi + n, day, n)

\* recurrence.py 104-125: the datetime the rrule iterator yields after
\* `after` (None: nothing yielded yet), None when it is exhausted
NextOccurrence(r, start, after) ==
    LET freq == ResolveFreq(r.frequency)
        n == ResolveInterval(r)
        d == IF freq = "DAILY"
             THEN IF after = None THEN DateOf(start) ELSE DateOf(after) + n
             ELSE IF freq = "WEEKLY"
             THEN NextWeekly(r, start,
                             IF after = None THEN DateOf(start) ELSE DateOf(after) + 1)
             ELSE IF after = None THEN DateOf(start)
             ELSE NextMonthly(MonthIndex(DateOf(after)) + n,
                              CivilFromDays(DateOf(start)).day, n)
        dt == d * DayMinutes + TimeOf(start)
    IN  IF WithinUntil(r, dt) THEN dt ELSE None

\* recurrence.py 123: the safety guard
DefaultLimit == 200

\* recurrence.py 123: limit = rule.max_occurrences or 200
Limit(r) ==
    IF r.max_occurrences = None \/ r.max_occurrences = 0 THEN DefaultLimit
    ELSE r.max_occurrences

\* an occurrence that keeps the end of the template
OccurrenceTemplateEnd(dt, start, end) == [start |-> dt, end |-> end]

\* recurrence.py 100, 138-139: the pair appended for the candidate dt
Occurrence(dt, start, end) == [start |-> dt, end |-> dt + (end - start)]

\* the counter advanced only by the candidates that are kept
CountKept(n, skip) == IF skip THEN n ELSE n + 1

\* recurrence.py 126-136: the counter advances before the exceptions are
\* looked at
CountCandidate(n, skip) == n + 1

\* the builder without its check of the cutoff
UntilCheckOff(until_dt, start) == FALSE

\* handlers.py 447-448: the cutoff precedes the template start
UntilBeforeStart(until_dt, start) == until_dt < start

NoRule ==
    [frequency |-> "", interval |-> 0, weekdays |-> <<>>, until |-> None,
     max_occurrences |-> None, exceptions |-> <<>>]

NoPayload ==
    [enabled |-> FALSE, frequency |-> "", interval |-> 0, days |-> <<>>, repeat_until |-> None,
     max_occurrences |-> None, exceptions |-> <<>>, parent_id |-> <<>>]

\* handlers.py 389-496: _build_recurrence_rule on a payload whose weekday
\* tokens and dates are parsed; error is the ValueError it raises, "" if none
BuildRecurrenceRule(payload, start) ==
    LET frequency == IF payload.frequency = "" THEN "weekly" ELSE payload.frequency
        interval == IF payload.interval = 0 THEN 1 ELSE payload.interval
        weekdays == IF frequency \in {"weekly", "biweekly"} /\ payload.days = <<>>
                    THEN <<WeekdayOf(start)>>
                    ELSE payload.days
        until_dt == IF payload.repeat_until = None THEN None
                    ELSE payload.repeat_until * DayMinutes + TimeOf(start)
        max_occurrences == IF payload.max_occurrences = 0 THEN None
                           ELSE payload.max_occurrences
    IN  IF until_dt = None
        THEN [error |-> "Repeat 'until' date is required", rule |-> NoRule]
        ELSE IF UntilBeforeStart(until_dt, start)
        THEN [error |-> "Repeat end date must be after the start date",
              rule |-> NoRule]
        ELSE [error |-> "",
              rule |-> [frequency |-> frequency, interval |-> interval,
                        weekdays |-> weekdays, until |-> until_dt,
                        max_occurrences |-> max_occurrences,
                        exceptions |-> payload.exceptions]]

\* no /events/create request with a recurrence is being served
NoExpansion ==
    /\ recurrence_payload = NoPayload
    /\ rule = NoRule
    /\ template_start = 0
    /\ template_end = 0
    /\ last_dt = None
    /\ counter = 0
    /\ occurrences = <<>>
    /\ expand_phase = "off"
    /\ expand_error = ""

-----------------------------------------------------------------------------
(* Event ids of /events/create and the calendar's id-keyed event store.    *)
(* A string is the sequence of its characters; a title is the sequence of  *)
(* its bracketed source tag, if any, and the rest of the text.             *)

UpperAlpha ==
    <<"A", "B", "C", "D", "E", "F", "G", "H", "I", "J", "K", "L", "M",
      "N", "O", "P", "Q", "R", "S", "T", "U", "V", "W", "X", "Y", "Z">>
LowerAlpha ==
    <<"a", "b", "c", "d", "e", "f", "g", "h", "i", "j", "k", "l", "m",
      "n", "o", "p", "q", "r", "s", "t", "u", "v", "w", "x", "y", "z">>
DigitChars == <<"0", "1", "2", "3", "4", "5", "6", "7", "8", "9">>

\* str.lower()
LowerChar(c) ==
    IF \E i \in 1..Len(UpperAlpha) : UpperAlpha[i] = c
    THEN LowerAlpha[CHOOSE i \in 1..Len(UpperAlpha) : UpperAlpha[i] = c]
    ELSE c
StrLower(s) == [i \in 1..Len(s) |-> LowerChar(s[i])]

\* str.isalpha() of one character of a sanitized string
IsAlpha(c) == \E i \in 1..Len(LowerAlpha) : LowerAlpha[i] = c

\* handlers.py 354: _EVENT_ID_SANITIZER.sub("", s) removes what is not [a-z0-9]
StripDisallowed(s) ==
    SelectSeq(s, LAMBDA c : \/ \E i \in 1..Len(LowerAlpha) : LowerAlpha[i] = c
                            \/ \E i \in 1..Len(DigitChars) : DigitChars[i] = c)

\* handlers.py 380: the length an event id is cut to
ID_MAX_LENGTH == 1024

\* handlers.py 380: candidate[:1024]
Truncate(s, n) == SubSeq(s, 1, Min(n, Len(s)))

\* handlers.py 357-380: _sanitize_event_id; u is the value of uuid4().hex
\* (at most one of the three uuid4 calls is reached in a call)
SanitizeEventId(value, fallback_prefix, u) ==
    LET p0 == StripDisallowed(StrLower(IF fallback_prefix = <<>> THEN <<"s", "c">>
                                        ELSE fallback_prefix))
        prefix == IF p0 = <<>> THEN <<"s", "c">> ELSE p0
        c0 == StripDisallowed(StrLower(value))
        c1 == IF c0 = <<>> THEN prefix \o SubSeq(u, 1, 12) ELSE c0
        c2 == IF ~IsAlpha(c1[1]) THEN StripDisallowed(prefix \o c1) ELSE c1
        c3 == IF Len(c2) < 5 THEN c2 \o SubSeq(u, 1, 5) ELSE c2
        c4 == StripDisallowed(c3)
        c5 == IF c4 = <<>> THEN prefix \o SubSeq(u, 1, 12) ELSE c4
    IN  Truncate(c5, ID_MAX_LENGTH)

\* the decimal digits of n >= 0, at least width of them (%02d, %04d, str)
RECURSIVE DecimalDigits(_, _)
DecimalDigits(n, width) ==
    IF n < 10 /\ width <= 1 THEN <<DigitChars[n + 1]>>
    ELSE DecimalDigits(n \div 10, width - 1) \o <<DigitChars[(n % 10) + 1]>>

\* handlers.py 384: occurrence_start.strftime("%Y%m%d%H%M%S")
Timestamp(dt) ==
    LET civil == CivilFromDays(DateOf(dt))
    IN  DecimalDigits(civil.year, 4) \o DecimalDigits(civil.month, 2)
            \o DecimalDigits(civil.day, 2) \o DecimalDigits(HourOf(dt), 2)
            \o DecimalDigits(MinuteOf(dt), 2) \o DecimalDigits(0, 2)

\* handlers.py 383-386: _build_occurrence_event_id
BuildOccurrenceEventId(parent, occurrence_start, index, u) ==
    SanitizeEventId(parent \o Timestamp(occurrence_start) \o DecimalDigits(index, 1),
                    parent, u)

\* handlers.py 488-494: the parent id of the payload, or "sc-" and 16 hex
\* digits of a uuid4 when the payload has none, sanitized
ResolveParentId(payload_parent_id, u, v) ==
    SanitizeEventId(IF payload_parent_id # <<>> THEN payload_parent_id
                    ELSE <<"s", "c", "-">> \o SubSeq(u, 1, 16),
                    <<>>, v)

\* values of uuid4().hex, their first 16 digits
UuidChoices ==
    {<<"3", "f", "a", "0", "9", "1", "c", "7", "5", "e", "2", "b", "8", "4", "d", "6">>,
     <<"b", "7", "1", "e", "4", "4", "a", "0", "c", "9", "3", "d", "2", "f", "5", "8">>}

\* google_calendar.py 406-446: create_or_update_event with an event id:
\* update when the id exists, insert when it does not
CreateOrUpdateEvent(store, event_id, event) ==
    [action |-> IF event_id \in DOMAIN store THEN "updated" ELSE "created",
     store |-> [i \in DOMAIN store \cup {event_id} |->
                   IF i = event_id THEN event ELSE store[i]]]

\* google_calendar.py 456-471: delete_event
CalendarDelete(store, event_id) ==
    [action |-> IF event_id \in DOMAIN store THEN "deleted" ELSE "not_found",
     store |-> [i \in DOMAIN store \ {event_id} |-> store[i]]]

\* handlers.py 223, 231-236: the sources and the title tags of Canvas
CanvasSources ==
    {"Canvas", "Harvard Canvas", "MIT Canvas", "Harvard Business School Canvas"}
CanvasTags ==
    {"[Canvas]", "[Harvard Canvas]", "[MIT Canvas]", "[Harvard Business School Canvas]"}

\* str.startswith of a title on one of the Canvas tags
HasCanvasTag(title) == title # <<>> /\ title[1] \in CanvasTags

\* handlers.py 203-247: the /events/delete handler on the store
DeleteEventOutcome(store, payload) ==
    IF payload.event_id = <<>>
    THEN [status |-> "error", protected |-> FALSE, action |-> "none", store |-> store]
    ELSE IF payload.source \in CanvasSources \/ HasCanvasTag(payload.title)
    THEN [status |-> "error", protected |-> TRUE, action |-> "none", store |-> store]
    ELSE [status |-> "ok", protected |-> FALSE,
          action |-> CalendarDelete(store, payload.event_id).action,
          store |-> CalendarDelete(store, payload.event_id).store]

NoResponse == [status |-> "none", created_count |-> 0]
NoDeleteResponse == [status |-> "none", protected |-> FALSE, action |-> "none"]

\* no /events/create series and no /events/delete request is being served
NoSeries ==
    /\ event_store = <<>>
    /\ parent_id = <<>>
    /\ next_index = 1
    /\ created_events = <<>>
    /\ submission = 0
    /\ first_pass = <<>>
    /\ series_phase = "off"
    /\ create_response = NoResponse
    /\ delete_response = NoDeleteResponse
    /\ deleted = {}
    /\ deletes = 0

-----------------------------------------------------------------------------
(* SlotSpec: one add_recurring call, its scan loop stepped.                *)

SlotInit ==
    /\ now \in NowChoices
    /\ parsed_request \in Requests
    /\ end_date = EndDate(now, parsed_request.time_range)
    /\ existing_events \in BusyLists(now, end_date)
    /\ current = RoundToInterval(now + 30, ROUND_TO_MINUTES)
    /\ candidates = <<>>
    /\ phase = "scan"
    /\ answer = NoAnswer
    /\ pending_proposals = EmptyStore
    /\ clock = 1
    /\ calendar = <<>>
    /\ calls = [p \in 1..NumSlots |-> IdleCall]
    /\ consumed = {}
    /\ NoExpansion
    /\ NoSeries

InBand(cur, req) ==
    LET wh == WorkingHours(req.preferred_time)
    IN  wh[1] <= HourOf(cur) /\ HourOf(cur) < wh[2]

\* voice.py 303-307: an iteration outside the working band
ScanSkip ==
    /\ phase = "scan"
    /\ current < end_date
    /\ ~InBand(current, parsed_request)
    /\ current' = ScanStep(current, candidates, parsed_request, existing_events)[1]
    /\ candidates' = ScanStep(current, candidates, parsed_request, existing_events)[2]
    /\ UNCHANGED <<now, parsed_request, existing_events, end_date, phase, answer>>
    /\ UNCHANGED sessionVars
    /\ UNCHANGED expandVars
    /\ UNCHANGED seriesVars

\* voice.py 314-333: an iteration inside the working band
ScanCheck ==
    /\ phase = "scan"
    /\ current < end_date
    /\ InBand(current, parsed_request)
    /\ current' = ScanStep(current, candidates, parsed_request, existing_events)[1]
    /\ candidates' = ScanStep(current, candidates, parsed_request, existing_events)[2]
    /\ UNCHANGED <<now, parsed_request, existing_events, end_date, phase, answer>>
    /\ UNCHANGED sessionVars
    /\ UNCHANGED expandVars
    /\ UNCHANGED seriesVars

\* voice.py 335-362 and 61-85: the loop has ended; rank, select, store the
\* session and answer
ScanReturn ==
    /\ phase = "scan"
    /\ ~(current < end_date)
    /\ LET proposals == SelectProposals(candidates, parsed_request.count)
       IN  /\ pending_proposals' =
                  StoreAfterSearch(pending_proposals, clock, parsed_request, proposals)
           /\ answer' = SearchAnswer(clock, parsed_request, proposals)
    /\ phase' = "done"
    /\ UNCHANGED <<now, parsed_request, existing_events, end_date, current, candidates>>
    /\ UNCHANGED <<clock, calendar, calls, consumed>>
    /\ UNCHANGED expandVars
    /\ UNCHANGED seriesVars

SlotNext == ScanSkip \/ ScanCheck \/ ScanReturn

SlotSpec == SlotInit /\ [][SlotNext]_vars

-----------------------------------------------------------------------------
(* Properties of the slot search (SlotSpec).                               *)

Returned == Range(answer.proposals)
FreeDays == {DateOf(c.start) : c \in Range(candidates)}

\* C6: the padded window [start - 15, end + 15) of every candidate found and
\* of every proposal returned overlaps no busy interval of the input list;
\* with the single busy interval 14:00-15:00 and a 30-minute request no
\* candidate starts in [13:30, 15:15), and the grid point 15:30, once the
\* scan has passed it, is among the free candidates.
C6_PaddedWindowFree ==
    LET day == DateOf(now) * DayMinutes
        all == Range(candidates) \cup Returned
        t1530 == day + 15 * 60 + 30
    IN  /\ \A c \in all : \A i \in 1..Len(existing_events) :
               ~(c.start - 15 < existing_events[i].end
                 /\ c.end + 15 > existing_events[i].start)
        /\ (/\ existing_events = <<[start |-> day + 14 * 60, end |-> day + 15 * 60]>>
            /\ parsed_request.duration_minutes = 30)
           => /\ \A c \in all : ~(day + 13 * 60 + 30 <= c.start
                                  /\ c.start < day + 15 * 60 + 15)
              /\ (/\ current > t1530
                  /\ RoundToInterval(now + 30, ROUND_TO_MINUTES) <= t1530
                  /\ InBand(t1530, parsed_request))
                 => \E c \in Range(candidates) : c.start = t1530

\* C6 witness: the concrete case has run to its answer, with the candidates
\* 13:15 and 15:30 found free around the busy interval and proposals returned.
C6_Witness ==
    LET day == DateOf(now) * DayMinutes
    IN  /\ phase = "done"
        /\ existing_events = <<[start |-> day + 14 * 60, end |-> day + 15 * 60]>>
        /\ parsed_request.duration_minutes = 30
        /\ \E c \in Range(candidates) : c.start = day + 15 * 60 + 30
        /\ \E c \in Range(candidates) : c.start = day + 13 * 60 + 15
        /\ answer.proposals # <<>>

\* C7: no two returned proposals that start on the same calendar day start
\* less than 60 minutes apart (the answer is what the day-spread pass left).
C7_ProximityDiversity ==
    \A i, j \in 1..Len(answer.proposals) :
        (i # j /\ DateOf(answer.proposals[i].start) = DateOf(answer.proposals[j].start))
        => Abs(answer.proposals[i].start - answer.proposals[j].start) >= 60

\* C7 witness: a count > 1 answer (so the day-spread pass ran) holding two
\* proposals of one day exactly 60 minutes apart.
C7_Witness ==
    /\ phase = "done"
    /\ parsed_request.count > 1
    /\ \E i, j \in 1..Len(answer.proposals) :
           /\ DateOf(answer.proposals[i].start) = DateOf(answer.proposals[j].start)
           /\ answer.proposals[j].start - answer.proposals[i].start = 60

\* C8: when count > 1 and free candidates exist on at least count distinct
\* days, the first count proposals include a candidate from each of the
\* first count chronological days that have a free slot.
C8_DaySpreadGuarantee ==
    (/\ phase = "done"
     /\ parsed_request.count > 1
     /\ Cardinality(FreeDays) >= parsed_request.count)
    => LET days == SubSeq(SortedSeq(FreeDays), 1, parsed_request.count)
           top == SlicePrefix(answer.proposals, parsed_request.count)
       IN  \A d \in Range(days) : \E i \in 1..Len(top) : DateOf(top[i].start) = d

\* C9: the returned proposals are pairwise non-overlapping as intervals
\* [start, end).
C9_ProposalsDisjoint ==
    \A i, j \in 1..Len(answer.proposals) :
        i # j => ~(/\ answer.proposals[i].start < answer.proposals[j].end
                   /\ answer.proposals[j].start < answer.proposals[i].end)

Covered ==
    \E i \in 1..Len(existing_events) :
        existing_events[i].start <= now /\ existing_events[i].end >= end_date

\* C10: when a busy interval covers the whole search window the scan finds
\* no candidate, add_recurring answers handled with requires_confirmation
\* false and a store left as it was; and a session is in the store only
\* when proposals were returned.
C10_EmptyResult ==
    /\ Covered => candidates = <<>>
    /\ (Covered /\ phase = "done")
       => /\ answer.proposals = <<>>
          /\ answer.handled
          /\ ~answer.requires_confirmation
          /\ pending_proposals = EmptyStore
    /\ \A sid \in DOMAIN pending_proposals : pending_proposals[sid].proposals # <<>>

\* C10 witness: a search over a fully booked window has answered.
C10_Witness ==
    /\ phase = "done"
    /\ Covered
    /\ answer.handled
    /\ ~answer.requires_confirmation
    /\ pending_proposals = EmptyStore

\* C12: the answer holds at most 2 x count proposals, and when it holds
\* fewer, every free in-band grid candidate that is not returned starts less
\* than 60 minutes from a returned proposal of the same day.
C12_TwiceCountUnlessExhausted ==
    phase = "done"
    => /\ Len(answer.proposals) <= 2 * parsed_request.count
       /\ Len(answer.proposals) < 2 * parsed_request.count
          => \A c \in Range(candidates) \ Returned :
                 \E r \in Returned :
                     /\ DateOf(c.start) = DateOf(r.start)
                     /\ Abs(c.start - r.start) < 60

\* C12 witness: an answer with proposals, fewer than 2 x count, while some
\* free candidate was left out.
C12_Witness ==
    /\ phase = "done"
    /\ Len(answer.proposals) > 0
    /\ Len(answer.proposals) < 2 * parsed_request.count
    /\ Range(candidates) \ Returned # {}

Accepted == ProximitySelect(SortByScore(candidates), parsed_request.count)
AcceptedDays == {DateOf(Accepted[i].start) : i \in 1..Len(Accepted)}

\* C24: when count > 1 the answer is a rearrangement of the accepted
\* candidates: first one candidate per day, the day's highest-scoring
\* accepted one, the days in chronological order, then the other accepted
\* candidates in the order they were accepted.
C24_DaySpreadOrder ==
    (phase = "done" /\ parsed_request.count > 1)
    => LET P == answer.proposals
           D == Cardinality(AcceptedDays)
       IN  /\ Len(P) = Len(Accepted)
           /\ Range(P) = Range(Accepted)
           /\ \A i, j \in 1..Len(P) : i # j => P[i] # P[j]
           /\ \A i \in 1..D :
                  /\ \A j \in 1..D : i < j => DateOf(P[i].start) < DateOf(P[j].start)
                  /\ \A k \in 1..Len(Accepted) :
                         DateOf(Accepted[k].start) = DateOf(P[i].start)
                         => Accepted[k].score <= P[i].score
           /\ \A i, j \in (D + 1)..Len(P) :
                  i < j
                  => /\ P[i].score >= P[j].score
                     /\ \E k, l \in 1..Len(Accepted) :
                            k < l /\ Accepted[k] = P[i] /\ Accepted[l] = P[j]

\* C24 witness: a count > 1 answer over two or more days whose day-by-day
\* head is followed by at least two more candidates, and whose order differs
\* from the order of acceptance.
C24_Witness ==
    /\ phase = "done"
    /\ parsed_request.count > 1
    /\ Cardinality(AcceptedDays) >= 2
    /\ Len(answer.proposals) >= Cardinality(AcceptedDays) + 2
    /\ answer.proposals # Accepted

\* C25: the start hour of every candidate found and of every proposal
\* returned is in [8, 12) for morning, [12, 17) for afternoon, [17, 20) for
\* evening and [8, 20) without preference.
C25_WorkingBand ==
    \A c \in Range(candidates) \cup Returned :
        LET hour == (c.start % DayMinutes) \div 60
            pref == parsed_request.preferred_time
        IN  IF pref = "morning" THEN 8 <= hour /\ hour < 12
            ELSE IF pref = "afternoon" THEN 12 <= hour /\ hour < 17
            ELSE IF pref = "evening" THEN 17 <= hour /\ hour < 20
            ELSE 8 <= hour /\ hour < 20

\* C25 witness: an evening request found a candidate at 19:45, the last
\* grid point of its band, and was answered with a proposal at 17:00, the
\* first one.
C25_Witness ==
    /\ phase = "done"
    /\ parsed_request.preferred_time = "evening"
    /\ \E c \in Range(candidates) : HourOf(c.start) = 19 /\ MinuteOf(c.start) = 45
    /\ \E c \in Returned : HourOf(c.start) = 17 /\ MinuteOf(c.start) = 0

\* C26: every proposal returned starts at or after now and ends at or
\* before the horizon end.
C26_InsideHorizon ==
    \A c \in Returned :
        /\ c.start >= now
        /\ c.end <= (IF parsed_request.time_range = "today"
                     THEN (now \div DayMinutes) * DayMinutes + 23 * 60 + 59
                     ELSE IF parsed_request.time_range = "next_3_days"
                     THEN now + 3 * DayMinutes
                     ELSE now + 7 * DayMinutes)

C28_ScanTerminates ==
    /\ [][phase = "scan"
          => \/ /\ phase' = "scan"
                /\ current' > current
                /\ InBand(current, parsed_request) => current' = current + 15
                /\ ~InBand(current, parsed_request)
                   => /\ current' % 60 = 0
                      /\ InBand(current', parsed_request)
             \/ /\ phase' = "done"
                /\ current' = current
                /\ current >= end_date]_vars
    /\ <>(current >= end_date)

\* C28 witness: a scan over a week has ended after jumping over at least
\* one night.
C28_Witness ==
    /\ phase = "done"
    /\ parsed_request.time_range = "this_week"
    /\ current >= end_date
    /\ current > now + DayMinutes

\* SlotSpec with the scan loop running on: voice.py 299-333 is straight-line
\* code without a suspension point, so an iteration that can run does run
SlotFairSpec == SlotSpec /\ WF_vars(ScanSkip \/ ScanCheck)

-----------------------------------------------------------------------------
(* InvalidSlotSpec: the slot search on a parsed request whose duration or   *)
(* count is not positive.  _parse_nl_request (voice.py 237-240) checks that *)
(* the fields are present, not their values.                               *)

InvalidRequests ==
    {r \in [duration_minutes : {0 - 30, 0, 30}, count : {0 - 1, 0, 1},
            time_range : TimeRanges, preferred_time : Preferences] :
        r.duration_minutes <= 0 \/ r.count <= 0}

InvalidSlotInit ==
    /\ now \in NowChoices
    /\ parsed_request \in InvalidRequests
    /\ end_date = EndDate(now, parsed_request.time_range)
    /\ existing_events \in BusyLists(now, end_date)
    /\ current = RoundToInterval(now + 30, ROUND_TO_MINUTES)
    /\ candidates = <<>>
    /\ phase = "scan"
    /\ answer = NoAnswer
    /\ pending_proposals = EmptyStore
    /\ clock = 1
    /\ calendar = <<>>
    /\ calls = [p \in 1..NumSlots |-> IdleCall]
    /\ consumed = {}
    /\ NoExpansion
    /\ NoSeries

InvalidSlotSpec == InvalidSlotInit /\ [][SlotNext]_vars

\* C11: a search whose duration or count is zero or negative does not scan
\* the grid, does not answer with a candidate list, empty or not, and does
\* not create a session.
C11_InvalidInputFailsFast ==
    (parsed_request.duration_minutes <= 0 \/ parsed_request.count <= 0)
    => /\ current = RoundToInterval(now + 30, ROUND_TO_MINUTES)
       /\ candidates = <<>>
       /\ ~answer.handled
       /\ pending_proposals = EmptyStore

-----------------------------------------------------------------------------
(* Spec: the requests of /voice/add and /confirm against the one           *)
(* VoiceService of the process (handlers.py 37-45).  Both handlers are     *)
(* coroutines of the server's event loop.  A request is first received     *)
(* (its slot is "pending"), then its handler body runs: add_recurring      *)
(* from the return of the language-model call (voice.py 49) to its         *)
(* return, and confirm_event whole, without a suspension point, since      *)
(* list_events and create_or_update_event (google_calendar.py 194-276,     *)
(* 377-446) are coroutines that never await.                               *)

Slots == 1..NumSlots

\* the parsed requests and calendar states of the /voice/add requests:
\* Friday 13:20, 30 minutes today (two proposals); Saturday 18:40, 30
\* minutes today (one proposal); Friday 13:20 with the window fully booked
\* (no proposal); and a request the language model could not parse
FridayNoon == 4 * DayMinutes + 800
SaturdayEvening == 5 * DayMinutes + 1120
TodayRequest ==
    [duration_minutes |-> 30, count |-> 1, time_range |-> "today",
     preferred_time |-> "none"]

SearchInputs ==
    <<[success |-> TRUE, now |-> FridayNoon, req |-> TodayRequest, events |-> <<>>],
      [success |-> TRUE, now |-> SaturdayEvening, req |-> TodayRequest, events |-> <<>>],
      [success |-> TRUE, now |-> FridayNoon, req |-> TodayRequest,
       events |-> <<[start |-> FridayNoon - 60,
                     end |-> EndDate(FridayNoon, "today") + 60]>>],
      [success |-> FALSE, now |-> FridayNoon, req |-> TodayRequest, events |-> <<>>]>>

\* voice.py 59: the proposals _find_free_slots returns for each search input
SearchProposals ==
    [k \in 1..Len(SearchInputs) |->
        IF SearchInputs[k].success
        THEN FindFreeSlots(SearchInputs[k].req, SearchInputs[k].now,
                           SearchInputs[k].events)
        ELSE <<>>]

\* the payloads of the /confirm requests: a session id (0: an id no search
\* issued, or none), the selected indices, the adjusted times
SessionIds == 0..MaxClock
NoAdjustment == <<>>
MorningAdjustment == <<[index |-> 0, hour |-> 9, minute |-> 30]>>
Selections ==
    {[selected_indices |-> <<>>, adjusted_times |-> NoAdjustment],
     [selected_indices |-> <<0>>, adjusted_times |-> NoAdjustment],
     [selected_indices |-> <<0>>, adjusted_times |-> MorningAdjustment],
     [selected_indices |-> <<0, 1>>, adjusted_times |-> NoAdjustment],
     [selected_indices |-> <<2>>, adjusted_times |-> NoAdjustment],
     [selected_indices |-> <<0, -1>>, adjusted_times |-> NoAdjustment]}

Init ==
    /\ pending_proposals = EmptyStore
    /\ clock = 1
    /\ calendar = <<>>
    /\ calls = [p \in Slots |-> IdleCall]
    /\ consumed = {}
    /\ now = 0
    /\ parsed_request = TodayRequest
    /\ existing_events = <<>>
    /\ end_date = 0
    /\ current = 0
    /\ candidates = <<>>
    /\ phase = "off"
    /\ answer = NoAnswer
    /\ NoExpansion
    /\ NoSeries

\* the wall clock moves on between two readings, or does not
Tick ==
    /\ clock < MaxClock
    /\ clock' = clock + 1
    /\ UNCHANGED <<pending_proposals, calendar, calls, consumed>>
    /\ UNCHANGED searchVars
    /\ UNCHANGED expandVars
    /\ UNCHANGED seriesVars

\* handlers.py 156-163, voice.py 34-56: a /voice/add request has arrived and
\* add_recurring awaits the language model
VoiceAdd(p, k) ==
    /\ calls[p].state = "idle"
    /\ calls' = [calls EXCEPT ![p] =
                    [IdleCall EXCEPT !.kind = "search", !.state = "pending", !.input = k]]
    /\ UNCHANGED <<pending_proposals, clock, calendar, consumed>>
    /\ UNCHANGED searchVars
    /\ UNCHANGED expandVars
    /\ UNCHANGED seriesVars

\* voice.py 51-93: add_recurring from the parsed request to its return
AddRecurring(p) ==
    /\ calls[p].kind = "search"
    /\ calls[p].state = "pending"
    /\ LET in == SearchInputs[calls[p].input]
           proposals == SearchProposals[calls[p].input]
           reply == SearchAnswer(clock, in.req, proposals)
       IN  /\ pending_proposals' =
                  IF in.success
                  THEN StoreAfterSearch(pending_proposals, clock, in.req, proposals)
                  ELSE pending_proposals
           /\ calls' = [calls EXCEPT ![p].state = "done",
                                     ![p].session_id = reply.session_id,
                                     ![p].result =
                                         IF ~in.success THEN "Failed"
                                         ELSE IF reply.requires_confirmation THEN "Proposed"
                                         ELSE "NoSlots"]
    /\ UNCHANGED <<clock, calendar, consumed>>
    /\ UNCHANGED searchVars
    /\ UNCHANGED expandVars
    /\ UNCHANGED seriesVars

\* voice.py 124: the selection is not empty and every index is in range
SelectionValid(selected_indices, proposals) ==
    /\ selected_indices # <<>>
    /\ \A i \in 1..Len(selected_indices) :
           0 <= selected_indices[i] /\ selected_indices[i] < Len(proposals)

\* voice.py 133-145: the event of one selected proposal, its start moved to
\* the adjusted time of day when the payload gives one for the index
SelectedEvent(session, idx, adjusted_times) ==
    LET proposal == session.proposals[idx + 1]
        adj == SelectSeq(adjusted_times, LAMBDA a : a.index = idx)
        start_time == IF adj # <<>>
                      THEN ReplaceHourMinute(proposal.start, adj[1].hour, adj[1].minute)
                      ELSE proposal.start
    IN  [start |-> start_time,
         end |-> start_time + session.parsed_request.duration_minutes]

\* voice.py 131-160: the events of the first n selections
CreatedEvents(session, selected_indices, adjusted_times, n) ==
    [k \in 1..n |-> SelectedEvent(session, selected_indices[k], adjusted_times)]

\* ConfirmOutcome with the session deleted right after the lookup, before the
\* selection is validated
ConfirmOutcomeConsumeFirst(store, cal, sid, selected_indices, adjusted_times, fail_at) ==
    LET rest == [i \in DOMAIN store \ {sid} |-> store[i]]
    IN  IF sid = 0 \/ sid \notin DOMAIN store
        THEN [result |-> "InvalidSession", store |-> store, calendar |-> cal,
              created_count |-> 0]
        ELSE IF ~SelectionValid(selected_indices, store[sid].proposals)
        THEN [result |-> "InvalidSelection", store |-> rest, calendar |-> cal,
              created_count |-> 0]
        ELSE IF fail_at > 0
        THEN [result |-> "CreateFailed", store |-> rest,
              calendar |-> cal \o CreatedEvents(store[sid], selected_indices,
                                                adjusted_times, fail_at - 1),
              created_count |-> fail_at - 1]
        ELSE [result |-> "Created", store |-> rest,
              calendar |-> cal \o CreatedEvents(store[sid], selected_indices,
                                                adjusted_times, Len(selected_indices)),
              created_count |-> Len(selected_indices)]

\* voice.py 99-176: confirm_event on the store and the calendar; fail_at = k
\* > 0 makes the k-th create_or_update_event call raise, fail_at = 0 none
ConfirmOutcome(store, cal, sid, selected_indices, adjusted_times, fail_at) ==
    IF sid = 0 \/ sid \notin DOMAIN store
    THEN [result |-> "InvalidSession", store |-> store, calendar |-> cal,
          created_count |-> 0]
    ELSE IF ~SelectionValid(selected_indices, store[sid].proposals)
    THEN [result |-> "InvalidSelection", store |-> store, calendar |-> cal,
          created_count |-> 0]
    ELSE IF fail_at > 0
    THEN [result |-> "CreateFailed", store |-> store,
          calendar |-> cal \o CreatedEvents(store[sid], selected_indices,
                                            adjusted_times, fail_at - 1),
          created_count |-> fail_at - 1]
    ELSE [result |-> "Created",
          store |-> [i \in DOMAIN store \ {sid} |-> store[i]],
          calendar |-> cal \o CreatedEvents(store[sid], selected_indices,
                                            adjusted_times, Len(selected_indices)),
          created_count |-> Len(selected_indices)]

\* another /confirm request received and not yet handled that names the
\* same active session, both with valid indices (0 when there is none)
InFlightWith(p, sid, selected_indices) ==
    LET others == {q \in Slots \ {p} :
                      /\ calls[q].kind = "confirm"
                      /\ calls[q].state = "pending"
                      /\ calls[q].session_id = sid
                      /\ sid \in DOMAIN pending_proposals
                      /\ SelectionValid(selected_indices, pending_proposals[sid].proposals)
                      /\ SelectionValid(calls[q].selected_indices,
                                        pending_proposals[sid].proposals)}
    IN  IF others = {} THEN 0 ELSE CHOOSE q \in others : TRUE

\* handlers.py 176-183, voice.py 108-110: a /confirm request has arrived
ConfirmRequest(p, sid, sel) ==
    /\ calls[p].state = "idle"
    /\ calls' = [calls EXCEPT ![p] =
                    [IdleCall EXCEPT !.kind = "confirm", !.state = "pending",
                                     !.session_id = sid,
                                     !.selected_indices = sel.selected_indices,
                                     !.adjusted_times = sel.adjusted_times,
                                     !.together =
                                         InFlightWith(p, sid, sel.selected_indices)]]
    /\ UNCHANGED <<pending_proposals, clock, calendar, consumed>>
    /\ UNCHANGED searchVars
    /\ UNCHANGED expandVars
    /\ UNCHANGED seriesVars

\* voice.py 112-176: confirm_event runs
ConfirmEvent(p, fail_at) ==
    /\ calls[p].kind = "confirm"
    /\ calls[p].state = "pending"
    /\ fail_at <= Len(calls[p].selected_indices)
    /\ LET out == ConfirmOutcome(pending_proposals, calendar, calls[p].session_id,
                                 calls[p].selected_indices, calls[p].adjusted_times,
                                 fail_at)
       IN  /\ Len(out.calendar) <= MaxEvents
           /\ pending_proposals' = out.store
           /\ calendar' = out.calendar
           /\ calls' = [calls EXCEPT ![p].state = "done",
                                     ![p].selected_indices = <<>>,
                                     ![p].adjusted_times = <<>>,
                                     ![p].result = out.result,
                                     ![p].created_count = out.created_count]
           /\ consumed' = IF out.result = "Created"
                          THEN consumed \cup {calls[p].session_id}
                          ELSE consumed
    /\ UNCHANGED clock
    /\ UNCHANGED searchVars
    /\ UNCHANGED expandVars
    /\ UNCHANGED seriesVars

\* the response has been sent and the slot is free for the next request
\* (kept while a call that arrived together with it is still in its slot)
Respond(p) ==
    /\ calls[p].state = "done"
    /\ \A q \in Slots : calls[q].together # p
    /\ calls' = [calls EXCEPT ![p] = IdleCall]
    /\ UNCHANGED <<pending_proposals, clock, calendar, consumed>>
    /\ UNCHANGED searchVars
    /\ UNCHANGED expandVars
    /\ UNCHANGED seriesVars

Next ==
    \/ Tick
    \/ \E p \in Slots, k \in 1..Len(SearchInputs) : VoiceAdd(p, k)
    \/ \E p \in Slots : AddRecurring(p)
    \/ \E p \in Slots, sid \in SessionIds, sel \in Selections :
           ConfirmRequest(p, sid, sel)
    \/ \E p \in Slots, fail_at \in 0..2 : ConfirmEvent(p, fail_at)
    \/ \E p \in Slots : Respond(p)

Spec == Init /\ [][Next]_vars

-----------------------------------------------------------------------------
(* Properties of the proposal sessions (Spec).                             *)

\* the handler of the request in slot p returns in this step
Completes(p) == calls[p].state = "pending" /\ calls'[p].state = "done"

\* C1: a successful confirm call leaves its session id out of the store, and
\* a confirm call naming an id that a confirm call has already succeeded on,
\* or an id no search issued, returns the invalid-session failure, creates no
\* calendar event and leaves the store unchanged.
C1_SingleUse ==
    [][\A p \in Slots :
          (calls[p].kind = "confirm" /\ Completes(p))
          => /\ calls'[p].result = "Created"
                => calls[p].session_id \notin DOMAIN pending_proposals'
             /\ (calls[p].session_id \in consumed \/ calls[p].session_id = 0)
                => /\ calls'[p].result = "InvalidSession"
                   /\ calendar' = calendar
                   /\ pending_proposals' = pending_proposals]_vars

\* C2: once a confirm call has passed the session lookup and the index
\* validation, its session id is out of the store when it returns, with
\* success or with a creation failure.
C2_ConsumedOnceValidated ==
    [][\A p \in Slots :
          (/\ calls[p].kind = "confirm"
           /\ Completes(p)
           /\ calls'[p].result \in {"Created", "CreateFailed"})
          => calls[p].session_id \notin DOMAIN pending_proposals']_vars

\* C3: a confirm call on an active session with an empty selection or an
\* index outside 0 <= i < number of proposals returns the invalid-selection
\* failure, creates no calendar event and leaves the store, the session and
\* its proposals included, as it was.
C3_InvalidSelectionKeepsSession ==
    [][\A p \in Slots :
          (/\ calls[p].kind = "confirm"
           /\ Completes(p)
           /\ calls[p].session_id \in DOMAIN pending_proposals
           /\ ~SelectionValid(calls[p].selected_indices,
                              pending_proposals[calls[p].session_id].proposals))
          => /\ calls'[p].result = "InvalidSelection"
             /\ calendar' = calendar
             /\ pending_proposals' = pending_proposals]_vars

\* C3 witness: a confirm call on a session failed with the invalid-selection
\* failure and a confirm call on the same id then succeeded and consumed it.
C3_Witness ==
    \E p, q \in Slots :
        /\ calls[p].state = "done" /\ calls[p].result = "InvalidSelection"
        /\ calls[q].state = "done" /\ calls[q].result = "Created"
        /\ calls[q].created_count > 0
        /\ calls[p].session_id = calls[q].session_id
        /\ calls[p].session_id \notin DOMAIN pending_proposals
        /\ calls[p].session_id \in consumed

\* C4: of two confirm calls with valid indices that were in flight together
\* for the same active session, at most one creates calendar events and
\* reports success, and the other then reports the invalid-session failure.
C4_ConsumeOnce ==
    \A p, q \in Slots :
        (/\ calls[q].together = p
         /\ calls[p].kind = "confirm"
         /\ calls[p].state = "done"
         /\ calls[q].state = "done")
        => /\ ~(calls[p].created_count > 0 /\ calls[q].created_count > 0)
           /\ calls[p].result = "Created" => calls[q].result = "InvalidSession"
           /\ calls[q].result = "Created" => calls[p].result = "InvalidSession"

\* C5: a search that stores proposals stores them under an id that is not
\* the id of a session in the store, and leaves every session of the store
\* as it was.
C5_FreshSessionId ==
    [][\A p \in Slots :
          (/\ calls[p].kind = "search"
           /\ Completes(p)
           /\ calls'[p].result = "Proposed")
          => /\ calls'[p].session_id \notin DOMAIN pending_proposals
             /\ \A sid \in DOMAIN pending_proposals :
                    /\ sid \in DOMAIN pending_proposals'
                    /\ pending_proposals'[sid] = pending_proposals[sid]]_vars


\* C29: a confirm_event call that returns a failure (handled = false) has
\* created no calendar event: the calendar after the call is the calendar
\* before it, also when a later create call of the same request raised.
C29_ConfirmAllOrNothing ==
    [][\A p \in Slots :
           (Completes(p) /\ calls[p].kind = "confirm" /\ calls'[p].result # "Created")
           => /\ calendar' = calendar
              /\ calls'[p].created_count = 0]_vars

-----------------------------------------------------------------------------
(* ExpandSpec: generate_occurrences, its loop stepped, called with a rule   *)
(* as it stands or, from /events/create, with the rule that                *)
(* _build_recurrence_rule makes of the request's recurrence payload.       *)

MaxOccurrences == 3    \* configured maxima are -1, 0 and 1..MaxOccurrences
MaxDeletes == 2        \* /events/delete requests served in a behaviour

\* template starts: Wednesday 2024-01-31 10:00 and Monday 2024-01-08 09:00
StartChoices == {30 * DayMinutes + 600, 7 * DayMinutes + 540}

\* template end - template start: an hour, nothing, and half an hour back
EndOffsets == {60, 0, 0 - 30}

RuleFrequencies == Frequencies \cup {"yearly", ""}
Intervals == {0, 1, 2}
WeekdayLists == {<<>>, <<0, 2>>, <<4>>}
MaxChoices == {None, 0 - 1, 0} \cup (1..MaxOccurrences)

\* the exception lists: none, the single date a week after the start, and
\* the range from the day after the start to two weeks after it
ExceptionLists(start) ==
    {<<>>,
     <<[start |-> DateOf(start) + 7, end |-> None]>>,
     <<[start |-> DateOf(start) + 1, end |-> DateOf(start) + 14]>>}

\* cutoffs of a rule: none, two weeks after the start to the minute, four
\* weeks and half an hour after it, and the day before it
UntilChoices(start) ==
    {None, start + 14 * DayMinutes, start + 28 * DayMinutes + 30, start - DayMinutes}

\* "repeat_until" dates of a payload: none, two weeks and five weeks after
\* the start date, and the day before it
RepeatUntilChoices(start) ==
    {None, DateOf(start) + 14, DateOf(start) + 35, DateOf(start) - 1}

Rules(start) ==
    [frequency : RuleFrequencies, interval : Intervals, weekdays : WeekdayLists,
     until : UntilChoices(start), max_occurrences : MaxChoices,
     exceptions : ExceptionLists(start)]

Payloads(start) ==
    [enabled : {TRUE}, frequency : RuleFrequencies, interval : Intervals,
     days : WeekdayLists, repeat_until : RepeatUntilChoices(start),
     max_occurrences : MaxChoices, exceptions : ExceptionLists(start),
     parent_id : {<<"s", "e", "r", "i", "e", "s">>}]

ExpandInit ==
    /\ template_start \in StartChoices
    /\ template_end \in {template_start + o : o \in EndOffsets}
    /\ \/ /\ recurrence_payload = NoPayload
          /\ rule \in Rules(template_start)
          /\ expand_phase = "call"
       \/ /\ recurrence_payload \in Payloads(template_start)
          /\ rule = NoRule
          /\ expand_phase = "build"
    /\ last_dt = None
    /\ counter = 0
    /\ occurrences = <<>>
    /\ expand_error = ""
    /\ pending_proposals = EmptyStore
    /\ clock = 1
    /\ calendar = <<>>
    /\ calls = [p \in 1..NumSlots |-> IdleCall]
    /\ consumed = {}
    /\ now = 0
    /\ parsed_request = TodayRequest
    /\ existing_events = <<>>
    /\ end_date = 0
    /\ current = 0
    /\ candidates = <<>>
    /\ phase = "off"
    /\ answer = NoAnswer
    /\ NoSeries

\* handlers.py 559-565: create_event builds the rule of the payload
BuildRule ==
    /\ expand_phase = "build"
    /\ LET built == BuildRecurrenceRule(recurrence_payload, template_start)
       IN  /\ rule' = built.rule
           /\ expand_error' = built.error
           /\ expand_phase' = IF built.error = "" THEN "call" ELSE "error"
           /\ \E u, v \in UuidChoices :
                  parent_id' = IF built.error = ""
                               THEN ResolveParentId(recurrence_payload.parent_id, u, v)
                               ELSE parent_id
    /\ UNCHANGED <<recurrence_payload, template_start, template_end, last_dt, counter,
                   occurrences>>
    /\ UNCHANGED <<event_store, next_index, created_events, submission, first_pass,
                   series_phase, create_response, delete_response, deleted, deletes>>
    /\ UNCHANGED sessionVars
    /\ UNCHANGED searchVars

\* recurrence.py 98-123: generate_occurrences up to its loop
ExpandBegin ==
    /\ expand_phase = "call"
    /\ IF ResolveFreq(rule.frequency) = "ValueError"
       THEN expand_phase' = "error" /\ expand_error' = "Unsupported frequency"
       ELSE IF template_end - template_start <= 0
       THEN expand_phase' = "error" /\ expand_error' = "Event duration must be positive"
       ELSE expand_phase' = "loop" /\ expand_error' = ""
    /\ UNCHANGED <<recurrence_payload, rule, template_start, template_end, last_dt,
                   counter, occurrences>>
    /\ UNCHANGED sessionVars
    /\ UNCHANGED searchVars
    /\ UNCHANGED seriesVars

\* recurrence.py 125-139: one iteration of the loop over the rrule
ExpandStep ==
    /\ expand_phase = "loop"
    /\ LET dt == NextOccurrence(rule, template_start, last_dt)
       IN  /\ dt # None
           /\ counter < Limit(rule)
           /\ last_dt' = dt
           /\ counter' = CountCandidate(counter, Excepted(rule, dt))
           /\ occurrences' =
                  IF Excepted(rule, dt) THEN occurrences
                  ELSE Append(occurrences, Occurrence(dt, template_start, template_end))
    /\ UNCHANGED <<recurrence_payload, rule, template_start, template_end, expand_phase,
                   expand_error>>
    /\ UNCHANGED sessionVars
    /\ UNCHANGED searchVars
    /\ UNCHANGED seriesVars

\* recurrence.py 125-127, 141: the rrule is exhausted or the limit is
\* reached, and the list is returned
ExpandReturn ==
    /\ expand_phase = "loop"
    /\ \/ NextOccurrence(rule, template_start, last_dt) = None
       \/ counter >= Limit(rule)
    /\ expand_phase' = "done"
    /\ UNCHANGED <<recurrence_payload, rule, template_start, template_end, last_dt,
                   counter, occurrences, expand_error>>
    /\ UNCHANGED sessionVars
    /\ UNCHANGED searchVars
    /\ UNCHANGED seriesVars

ExpandNext == BuildRule \/ ExpandBegin \/ ExpandStep \/ ExpandReturn

ExpandSpec == ExpandInit /\ [][ExpandNext]_vars


-----------------------------------------------------------------------------
(* Properties of the recurrence expansion (ExpandSpec).                     *)

\* the start datetimes of the occurrences collected, in output order
Starts == [i \in 1..Len(occurrences) |-> occurrences[i].start]

\* dt is a datetime of the rule's cadence from start: the time of day of
\* start, on or after it, and on a day of the frequency and interval
CadenceCandidate(r, start, dt) ==
    LET n == ResolveInterval(r)
        months == MonthIndex(DateOf(dt)) - MonthIndex(DateOf(start))
    IN  /\ dt >= start
        /\ TimeOf(dt) = TimeOf(start)
        /\ IF r.frequency = "daily"
           THEN (DateOf(dt) - DateOf(start)) % n = 0
           ELSE IF r.frequency \in {"weekly", "biweekly"}
           THEN /\ WeekdayOf(dt) \in ByWeekday(r, start)
                /\ WeekOf(start, DateOf(dt)) % n = 0
           ELSE /\ r.frequency = "monthly"
                /\ CivilFromDays(DateOf(dt)).day = CivilFromDays(DateOf(start)).day
                /\ months % n = 0

\* the cadence datetimes from start up to last
CandidatesUpTo(r, start, last) ==
    {dt \in {d * DayMinutes + TimeOf(start) : d \in DateOf(start)..DateOf(last)} :
        dt <= last /\ CadenceCandidate(r, start, dt)}

\* days after the start that hold the first k cadence datetimes
CadenceSpan(r, k) ==
    IF r.frequency = "daily" THEN k * ResolveInterval(r)
    ELSE IF r.frequency = "monthly" THEN 366 + 31 * k * ResolveInterval(r)
    ELSE 7 * (k + 1) * ResolveInterval(r)

\* the first k cadence datetimes from start that the cutoff admits
FirstCandidates(r, start, k) ==
    LET span == start + CadenceSpan(r, k) * DayMinutes
        last == IF r.until # None /\ r.until < span THEN r.until ELSE span
        all == CandidatesUpTo(r, start, last)
    IN  {dt \in all : Cardinality({o \in all : o < dt}) < k}

\* C13: every occurrence collected lasts exactly template end - template
\* start.
C13_DurationPreserved ==
    \A i \in 1..Len(occurrences) :
        occurrences[i].end - occurrences[i].start = template_end - template_start

\* C13 witness: a monthly expansion has returned at least two occurrences.
C13_Witness ==
    /\ expand_phase = "done"
    /\ rule.frequency = "monthly"
    /\ Len(occurrences) >= 2
    /\ occurrences[2].end = occurrences[2].start + 60

\* C14: with a cutoff, no occurrence starts after the cutoff, and when the
\* expansion has returned, a cutoff that is a cadence datetime, is not
\* excepted and is within the limit is the start of an occurrence.
C14_CutoffInclusive ==
    (rule.until # None /\ expand_phase \in {"loop", "done"})
    => /\ \A i \in 1..Len(occurrences) : occurrences[i].start <= rule.until
       /\ (/\ expand_phase = "done"
           /\ CadenceCandidate(rule, template_start, rule.until)
           /\ ~Excepted(rule, rule.until)
           /\ Cardinality(CandidatesUpTo(rule, template_start, rule.until))
                  <= Limit(rule))
          => \E i \in 1..Len(occurrences) : occurrences[i].start = rule.until

\* C14 witness: an expansion of a payload of /events/create has returned
\* with its last occurrence starting exactly at the cutoff, short of the
\* limit.
C14_Witness ==
    /\ expand_phase = "done"
    /\ recurrence_payload.enabled
    /\ Len(occurrences) >= 2
    /\ occurrences[Len(occurrences)].start = rule.until
    /\ counter < Limit(rule)

\* C15: no occurrence starts on a date of an exception range, and an
\* expansion with a configured limit returns exactly the first limit
\* cadence datetimes less the excepted ones, in order.
C15_ExceptionsConsumeCap ==
    /\ \A i \in 1..Len(occurrences) : ~Excepted(rule, occurrences[i].start)
    /\ (expand_phase = "done" /\ Limit(rule) < DefaultLimit)
       => Starts = SortedSeq({dt \in FirstCandidates(rule, template_start, Limit(rule)) :
                                 ~Excepted(rule, dt)})

\* C15 witness: a limit of 3 with one of the first three cadence dates
\* excepted has returned 2 occurrences.
C15_Witness ==
    /\ expand_phase = "done"
    /\ rule.max_occurrences = 3
    /\ counter = 3
    /\ Len(occurrences) = 2
    /\ Cardinality({dt \in FirstCandidates(rule, template_start, 3) :
                       Excepted(rule, dt)}) = 1

\* C16: the occurrences never outnumber the configured maximum (a maximum
\* below zero allowing none), nor 200 when no maximum is configured.
C16_CapEnforced ==
    Len(occurrences) <= (IF rule.max_occurrences = None THEN DefaultLimit
                         ELSE Max(rule.max_occurrences, 0))

\* C17: every two consecutive occurrences of a biweekly rule of interval 1
\* start exactly 14 days apart.
C17_BiweeklySpacing ==
    (rule.frequency = "biweekly" /\ rule.interval = 1)
    => \A i \in 1..(Len(occurrences) - 1) :
           occurrences[i + 1].start - occurrences[i].start = 14 * DayMinutes

\* C17 as amended: for a biweekly rule of interval 1, two occurrences on the
\* same weekday start a positive multiple of 14 days apart, and while the
\* rule has a single effective weekday and no candidate has been excepted,
\* consecutive occurrences start exactly 14 days apart.
C17_BiweeklySpacingAmended ==
    (rule.frequency = "biweekly" /\ rule.interval = 1)
    => /\ \A i, j \in 1..Len(occurrences) :
              (i < j /\ WeekdayOf(occurrences[i].start) = WeekdayOf(occurrences[j].start))
              => /\ occurrences[j].start > occurrences[i].start
                 /\ (occurrences[j].start - occurrences[i].start) % (14 * DayMinutes) = 0
       /\ (Len(rule.weekdays) <= 1 /\ counter = Len(occurrences))
          => \A i \in 1..(Len(occurrences) - 1) :
                 occurrences[i + 1].start - occurrences[i].start = 14 * DayMinutes

\* C17 witness: a biweekly rule of interval 1 with no weekday list and no
\* excepted candidate has returned at least three occurrences.
C17_Witness ==
    /\ expand_phase = "done"
    /\ rule.frequency = "biweekly"
    /\ rule.interval = 1
    /\ rule.weekdays = <<>>
    /\ counter = Len(occurrences)
    /\ Len(occurrences) >= 3

\* C18: every occurrence of a weekly or biweekly rule is on a weekday of the
\* rule's list, or on the weekday of the template start when the list is
\* empty; the same holds of the "days" of a payload of /events/create.
C18_WeekdaySet ==
    /\ rule.frequency \in {"weekly", "biweekly"}
       => \A i \in 1..Len(occurrences) :
              WeekdayOf(occurrences[i].start) \in
                  (IF rule.weekdays # <<>>
                   THEN {rule.weekdays[k] : k \in 1..Len(rule.weekdays)}
                   ELSE {WeekdayOf(template_start)})
    /\ (recurrence_payload.enabled /\ rule.frequency \in {"weekly", "biweekly"})
       => \A i \in 1..Len(occurrences) :
              WeekdayOf(occurrences[i].start) \in
                  (IF recurrence_payload.days # <<>>
                   THEN {recurrence_payload.days[k] : k \in 1..Len(recurrence_payload.days)}
                   ELSE {WeekdayOf(template_start)})

\* C18 witness: a weekly rule with no weekday list, from a Wednesday, has
\* returned at least two occurrences.
C18_Witness ==
    /\ expand_phase = "done"
    /\ rule.frequency = "weekly"
    /\ rule.weekdays = <<>>
    /\ WeekdayOf(template_start) = 2
    /\ Len(occurrences) >= 2

\* C19: generate_occurrences enters its loop only with one of the four
\* frequencies and template end > template start; otherwise it raises
\* (unsupported frequency first, then the duration) and has no occurrence.
C19_RejectsBadInput ==
    /\ expand_phase \in {"loop", "done"}
       => rule.frequency \in Frequencies /\ template_end > template_start
    /\ expand_phase = "error" => occurrences = <<>>
    /\ (expand_phase = "error" /\ ~recurrence_payload.enabled)
       => IF rule.frequency \notin Frequencies
          THEN expand_error = "Unsupported frequency"
          ELSE expand_error = "Event duration must be positive"

\* C19 witness: a rule of frequency "yearly" on a template of positive
\* duration was rejected as an unsupported frequency.
C19_Witness ==
    /\ expand_phase = "error"
    /\ rule.frequency = "yearly"
    /\ template_end > template_start
    /\ expand_error = "Unsupported frequency"

-----------------------------------------------------------------------------
(* SeriesSpec: the calendar behind /events/create and /events/delete. One  *)
(* recurring create request is served, occurrence by occurrence, and is    *)
(* then submitted again unchanged; /events/delete requests arrive at any   *)
(* time.                                                                   *)

\* the events the calendar holds before the request: one synced from Canvas
\* and one made by hand
CanvasEventId == <<"c", "a", "n", "v", "a", "s", "1">>
ManualEventId == <<"l", "u", "n", "c", "h", "1">>
UnknownEventId == <<"g", "o", "n", "e", "1">>
CanvasTitle == <<"[Canvas]", " Problem set 1">>
ManualTitle == <<"Lunch">>
SeriesTitle == <<"Study group">>

InitialEvents ==
    [i \in {CanvasEventId, ManualEventId} |->
        IF i = CanvasEventId
        THEN [summary |-> CanvasTitle, start |-> 2 * DayMinutes + 600,
              end |-> 2 * DayMinutes + 660]
        ELSE [summary |-> ManualTitle, start |-> 3 * DayMinutes + 720,
              end |-> 3 * DayMinutes + 780]]

\* "parent_id" of the payload: absent, a ready id, one that sanitizes to
\* fewer than 5 characters, one that starts with a digit, and one as long
\* as an event id may be
LongParentId == [i \in 1..ID_MAX_LENGTH |-> "a"]
ParentIdChoices ==
    {<<>>,
     <<"s", "e", "r", "i", "e", "s">>,
     <<"M", "y", "-", "1">>,
     <<"4", "2", "a", "b", "c">>,
     LongParentId}

\* the payloads: weekly up to two weeks after the start or up to the day
\* before it, and daily with a cap
SeriesPayloads(start) ==
    {[enabled |-> TRUE, frequency |-> f, interval |-> 1, days |-> <<>>,
      repeat_until |-> DateOf(start) + r, max_occurrences |-> m,
      exceptions |-> <<>>, parent_id |-> p] :
        f \in {"weekly"}, r \in {14, 0 - 1}, m \in {None}, p \in ParentIdChoices}
    \cup
    {[enabled |-> TRUE, frequency |-> "daily", interval |-> 1, days |-> <<>>,
      repeat_until |-> DateOf(start) + 14, max_occurrences |-> MaxOccurrences,
      exceptions |-> <<>>, parent_id |-> p] : p \in ParentIdChoices}

\* what /events/delete is asked with
DeletePayloads ==
    [event_id : {<<>>, CanvasEventId, ManualEventId, UnknownEventId},
     title : {<<>>, CanvasTitle, ManualTitle},
     source : {"", "Canvas", "Google"}]

SeriesInit ==
    /\ template_start \in StartChoices
    /\ template_end = template_start + 60
    /\ recurrence_payload \in SeriesPayloads(template_start)
    /\ rule = NoRule
    /\ expand_phase = "build"
    /\ last_dt = None
    /\ counter = 0
    /\ occurrences = <<>>
    /\ expand_error = ""
    /\ event_store = InitialEvents
    /\ parent_id = <<>>
    /\ next_index = 1
    /\ created_events = <<>>
    /\ submission = 1
    /\ first_pass = <<>>
    /\ series_phase = "serve"
    /\ create_response = NoResponse
    /\ delete_response = NoDeleteResponse
    /\ deleted = {}
    /\ deletes = 0
    /\ pending_proposals = EmptyStore
    /\ clock = 1
    /\ calendar = <<>>
    /\ calls = [p \in 1..NumSlots |-> IdleCall]
    /\ consumed = {}
    /\ now = 0
    /\ parsed_request = TodayRequest
    /\ existing_events = <<>>
    /\ end_date = 0
    /\ current = 0
    /\ candidates = <<>>
    /\ phase = "off"
    /\ answer = NoAnswer

\* handlers.py 559-570, 618-619: the rule or the expansion raised, or no
\* occurrence came back: the request is answered with an error
CreateReject ==
    /\ series_phase = "serve"
    /\ \/ expand_phase = "error"
       \/ expand_phase = "done" /\ occurrences = <<>>
    /\ series_phase' = "done"
    /\ create_response' = [status |-> "error", created_count |-> 0]
    /\ UNCHANGED <<event_store, parent_id, next_index, created_events, submission, first_pass,
                   delete_response, deleted, deletes>>
    /\ UNCHANGED expandVars
    /\ UNCHANGED sessionVars
    /\ UNCHANGED searchVars

\* handlers.py 573-596: one iteration of the loop over the occurrences
WriteOccurrence ==
    /\ series_phase = "serve"
    /\ expand_phase = "done"
    /\ next_index <= Len(occurrences)
    /\ \E u \in UuidChoices :
           LET occurrence_id ==
                   BuildOccurrenceEventId(parent_id, occurrences[next_index].start,
                                          next_index, u)
               result ==
                   CreateOrUpdateEvent(event_store, occurrence_id,
                                       [summary |-> SeriesTitle,
                                        start |-> occurrences[next_index].start,
                                        end |-> occurrences[next_index].end])
           IN  /\ event_store' = result.store
               /\ created_events' =
                      Append(created_events,
                             [id |-> occurrence_id, action |-> result.action])
    /\ next_index' = next_index + 1
    /\ UNCHANGED <<parent_id, submission, first_pass, series_phase, create_response,
                   delete_response, deleted, deletes>>
    /\ UNCHANGED expandVars
    /\ UNCHANGED sessionVars
    /\ UNCHANGED searchVars

\* handlers.py 598-603: the loop has ended and the request is answered
CreateReturn ==
    /\ series_phase = "serve"
    /\ expand_phase = "done"
    /\ occurrences # <<>>
    /\ next_index > Len(occurrences)
    /\ series_phase' = "done"
    /\ create_response' = [status |-> "ok", created_count |-> Len(created_events)]
    /\ UNCHANGED <<event_store, parent_id, next_index, created_events, submission, first_pass,
                   delete_response, deleted, deletes>>
    /\ UNCHANGED expandVars
    /\ UNCHANGED sessionVars
    /\ UNCHANGED searchVars

\* handlers.py 499-516: the same request arrives a second time
Resubmit ==
    /\ series_phase = "done"
    /\ submission = 1
    /\ submission' = 2
    /\ first_pass' = created_events
    /\ series_phase' = "serve"
    /\ create_response' = NoResponse
    /\ parent_id' = <<>>
    /\ next_index' = 1
    /\ created_events' = <<>>
    /\ rule' = NoRule
    /\ expand_phase' = "build"
    /\ last_dt' = None
    /\ counter' = 0
    /\ occurrences' = <<>>
    /\ expand_error' = ""
    /\ UNCHANGED <<recurrence_payload, template_start, template_end>>
    /\ UNCHANGED <<event_store, delete_response, deleted, deletes>>
    /\ UNCHANGED sessionVars
    /\ UNCHANGED searchVars

\* handlers.py 203-247: a /events/delete request is served
DeleteEvent(payload) ==
    /\ series_phase # "off"
    /\ deletes < MaxDeletes
    /\ LET out == DeleteEventOutcome(event_store, payload)
       IN  /\ event_store' = out.store
           /\ delete_response' =
                  [status |-> out.status, protected |-> out.protected,
                   action |-> out.action]
           /\ deleted' =
                  IF out.action = "deleted"
                  THEN deleted \cup {[id |-> payload.event_id,
                                      summary |-> event_store[payload.event_id].summary]}
                  ELSE deleted
    /\ deletes' = deletes + 1
    /\ UNCHANGED <<parent_id, next_index, created_events, submission, first_pass,
                   series_phase, create_response>>
    /\ UNCHANGED expandVars
    /\ UNCHANGED sessionVars
    /\ UNCHANGED searchVars

SeriesNext ==
    \/ BuildRule
    \/ ExpandBegin
    \/ ExpandStep
    \/ ExpandReturn
    \/ CreateReject
    \/ WriteOccurrence
    \/ CreateReturn
    \/ Resubmit
    \/ \E payload \in DeletePayloads : DeleteEvent(payload)

SeriesSpec == SeriesInit /\ [][SeriesNext]_vars

-----------------------------------------------------------------------------
(* Properties of the series (SeriesSpec).                                  *)

\* the ids of the create_or_update_event calls of a pass, in call order
IdsOf(results) == [i \in 1..Len(results) |-> results[i].id]

\* C21: the identical recurring create request submitted twice gives every
\* occurrence the same event id on both passes, every call of the second
\* pass reports "updated", and the calendar holds no occurrence twice.
C21_IdempotentResubmission ==
    (submission = 2 /\ series_phase = "done" /\ create_response.status = "ok")
    => /\ IdsOf(created_events) = IdsOf(first_pass)
       /\ \A i \in 1..Len(created_events) : created_events[i].action = "updated"
       /\ \A i, j \in DOMAIN event_store : event_store[i] = event_store[j] => i = j

\* C22: no event stored under a title that begins with a Canvas tag is
\* deleted through /events/delete, whatever the payload.
C22_CanvasNeverDeleted ==
    /\ \A d \in deleted : ~HasCanvasTag(d.summary)
    /\ CanvasEventId \in DOMAIN event_store

\* C30: within one create request the occurrences get pairwise distinct
\* event ids, no call updates the event of another occurrence of the
\* series, and as many events are written as there are occurrences.
C30_DistinctOccurrenceIds ==
    (submission = 1 /\ series_phase = "done" /\ create_response.status = "ok")
    => /\ \A i, j \in 1..Len(created_events) :
              i # j => created_events[i].id # created_events[j].id
       /\ \A i \in 1..Len(created_events) : created_events[i].action = "created"
       /\ Cardinality({i \in DOMAIN event_store : event_store[i].summary = SeriesTitle})
              = Len(occurrences)
       /\ create_response.created_count = Len(occurrences)

=============================================================================
